---- MODULE Spec2Model ----
(***************************************************************************)
(* Sentence extraction of rustyrag (src/contents.rs): the File record, the *)
(* extension dispatch of File::parse and the three line-oriented           *)
(* extractors parse_rust_file, parse_markdown_file and parse_toml_file;    *)
(* the directory loader load_files_from_dir; and the vector store wrapper  *)
(* VectorDB (src/vector.rs).                                               *)
(*                                                                         *)
(* Text is modelled by TLA+ strings; Len, \o, SubSeq, Head and Tail act on *)
(* them character by character.  An Option is a sequence of length 0 or 1. *)
(***************************************************************************)
EXTENDS Integers, Sequences, FiniteSets, TLC

VARIABLES files, frame, parsed,        \* File records and their extraction
          args, stack, result, walked,  \* load_files_from_dir
          db, store, ret, issued, used  \* VectorDB and the store behind it

fileVars == <<files, frame, parsed>>
loadVars == <<args, stack, result, walked>>
dbVars == <<db, store, ret, issued, used>>
vars == <<fileVars, loadVars, dbVars>>

(***************************************************************************)
(* Bounds of the model.                                                    *)
(***************************************************************************)
MaxLineLen == 4   \* longest line of the exhaustively enumerated lines
MaxLines == 3     \* most lines of a file put together from a line vocabulary
MaxParses == 2    \* most parse calls made on one record
NumFiles == 2     \* records extracted side by side in SpecConc
MaxEntries == 4   \* most directory entries (the root included) of one walk
MaxDepth == 2     \* most directories open at once in one walk
MaxUpserts == 3   \* most successful upserts of one VectorDB

(***************************************************************************)
(* Option values.                                                          *)
(***************************************************************************)
None == <<>>
Some(x) == <<x>>

(***************************************************************************)
(* str primitives used by the extractors, computed as the standard library *)
(* computes them.                                                          *)
(***************************************************************************)
Whitespace == {" ", "\t", "\r", "\n"}

At(s, i) == SubSeq(s, i, i)

\* str::find: Some(0-based offset of the first occurrence of pat), or None.
find(s, pat) ==
    LET hits == {i \in 0..(Len(s) - Len(pat)) :
                    SubSeq(s, i + 1, i + Len(pat)) = pat}
    IN  IF hits = {} THEN None
        ELSE Some(CHOOSE i \in hits : \A j \in hits : i <= j)

\* &s[from..] and &s[..to] with 0-based byte offsets.
SliceFrom(s, from) == SubSeq(s, from + 1, Len(s))
SliceTo(s, to) == SubSeq(s, 1, to)

starts_with(s, pat) == Len(s) >= Len(pat) /\ SubSeq(s, 1, Len(pat)) = pat
ends_with(s, pat) ==
    Len(s) >= Len(pat) /\ SubSeq(s, Len(s) - Len(pat) + 1, Len(s)) = pat
is_empty(s) == Len(s) = 0

\* str::trim: leading and trailing whitespace removed.
trim(s) ==
    LET keep == {i \in 1..Len(s) : At(s, i) \notin Whitespace}
    IN  IF keep = {} THEN ""
        ELSE SubSeq(s, CHOOSE i \in keep : \A j \in keep : i <= j,
                       CHOOSE i \in keep : \A j \in keep : i >= j)

\* s split at every occurrence of the one-character separator sep.
RECURSIVE Split(_, _)
Split(s, sep) ==
    LET hit == find(s, sep)
    IN  IF hit = None THEN <<s>>
        ELSE <<SliceTo(s, hit[1])>> \o Split(SliceFrom(s, hit[1] + 1), sep)

\* str::lines: the text is cut after every "\n"; a line loses its "\n" and
\* then one "\r" before it; no empty last line follows a final "\n".
StripLineEnd(l) == IF ends_with(l, "\r") THEN SliceTo(l, Len(l) - 1) ELSE l

lines(s) ==
    LET parts == Split(s, "\n")
        n == Len(parts)
    IN  [i \in 1..(IF parts[n] = "" THEN n - 1 ELSE n) |->
            IF i < n THEN StripLineEnd(parts[i]) ELSE parts[i]]

(***************************************************************************)
(* Path::extension (Unix paths).                                           *)
(***************************************************************************)
\* Path::components: "/" stands for the root, "." for a leading current
\* directory, ".." for a parent directory; empty segments and inner "."
\* segments are normalised away.
components(path) ==
    LET segs == Split(path, "/")
        has_root == starts_with(path, "/")
        kept == SelectSeq([i \in 1..Len(segs) |-> <<i, segs[i]>>],
                    LAMBDA e : /\ e[2] # ""
                               /\ (e[2] = "." => (e[1] = 1 /\ ~has_root)))
    IN  (IF has_root THEN <<"/">> ELSE <<>>)
            \o [i \in 1..Len(kept) |-> kept[i][2]]

\* Path::file_name: the last component when it is a normal one.
file_name(path) ==
    LET comps == components(path)
    IN  IF comps = <<>> THEN None
        ELSE IF comps[Len(comps)] \in {"/", ".", ".."} THEN None
        ELSE Some(comps[Len(comps)])

\* Variant of extension: a file name whose only "." is its first character
\* has the rest of the name as its extension.
extension_of_dotfile(path) ==
    LET name == file_name(path)
    IN  IF name = None THEN None
        ELSE LET dots == {i \in 1..Len(name[1]) : At(name[1], i) = "."}
             IN  IF dots = {} THEN None
                 ELSE LET last == CHOOSE i \in dots : \A j \in dots : i >= j
                      IN  Some(SubSeq(name[1], last + 1, Len(name[1])))

\* Path::extension: the text after the last "." of the file name; None when
\* there is no file name, no "." in it, or its only "." is its first
\* character.
extension(path) ==
    LET name == file_name(path)
    IN  IF name = None THEN None
        ELSE LET dots == {i \in 1..Len(name[1]) : At(name[1], i) = "."}
             IN  IF dots = {} THEN None
                 ELSE LET last == CHOOSE i \in dots : \A j \in dots : i >= j
                      IN  IF last = 1 THEN None
                          ELSE Some(SubSeq(name[1], last + 1, Len(name[1])))

(***************************************************************************)
(* One iteration of the loop of each extractor: what the line makes the    *)
(* loop push (emit: no sentence or one) and the loop's flag after it.      *)
(***************************************************************************)
\* Variant of InBlock: a blank line of a block comment pushes nothing.
InBlockSkipBlank(line) ==
    LET end_pos == find(line, "*/")
    IN  IF end_pos # None
        THEN [emit |-> <<SliceTo(line, end_pos[1])>>,
              in_block_comment |-> FALSE]
        ELSE [emit |-> IF is_empty(line) THEN <<>> ELSE <<line>>,
              in_block_comment |-> TRUE]

\* A line read in a block comment: cut at the first "*/", which closes the
\* comment, or pushed whole.
InBlock(line) ==
    LET end_pos == find(line, "*/")
    IN  IF end_pos # None
        THEN [emit |-> <<SliceTo(line, end_pos[1])>>,
              in_block_comment |-> FALSE]
        ELSE [emit |-> <<line>>, in_block_comment |-> TRUE]

\* Variant of LineComment: the text after the marker is pushed untrimmed.
LineCommentUntrimmed(line, marker) ==
    [emit |-> <<SliceFrom(line, find(line, marker)[1] + Len(marker))>>,
     in_block_comment |-> FALSE]

\* A line with a line-comment marker: the trimmed text after its first
\* occurrence.
LineComment(line, marker) ==
    [emit |-> <<trim(SliceFrom(line, find(line, marker)[1] + Len(marker)))>>,
     in_block_comment |-> FALSE]

\* Variant of BlockStart: the text that is pushed is trimmed.
BlockStartTrimmed(line) ==
    LET after_start == SliceFrom(line, find(line, "/*")[1] + 2)
        end_pos == find(after_start, "*/")
    IN  IF end_pos # None
        THEN [emit |-> <<trim(SliceTo(after_start, end_pos[1]))>>,
              in_block_comment |-> FALSE]
        ELSE [emit |-> <<trim(after_start)>>, in_block_comment |-> TRUE]

\* A line that opens a block comment: the text after the first "/*", cut at
\* the first "*/" after it when there is one.
BlockStart(line) ==
    LET after_start == SliceFrom(line, find(line, "/*")[1] + 2)
        end_pos == find(after_start, "*/")
    IN  IF end_pos # None
        THEN [emit |-> <<SliceTo(after_start, end_pos[1])>>,
              in_block_comment |-> FALSE]
        ELSE [emit |-> <<after_start>>, in_block_comment |-> TRUE]

\* Variant of RustLine: the opening of a block comment is looked for before
\* the line-comment markers.
RustLineBlockFirst(in_block_comment, raw) ==
    LET line == trim(raw)
    IN  IF in_block_comment THEN InBlock(line)
        ELSE IF find(line, "/*") # None THEN BlockStart(line)
        ELSE IF find(line, "///") # None THEN LineComment(line, "///")
        ELSE IF find(line, "//!") # None THEN LineComment(line, "//!")
        ELSE IF find(line, "//") # None THEN LineComment(line, "//")
        ELSE [emit |-> <<>>, in_block_comment |-> FALSE]

\* Variant of RustLine: the plain marker "//" is looked for before the
\* documentation markers.
RustLinePlainFirst(in_block_comment, raw) ==
    LET line == trim(raw)
    IN  IF in_block_comment THEN InBlock(line)
        ELSE IF find(line, "//") # None THEN LineComment(line, "//")
        ELSE IF find(line, "///") # None THEN LineComment(line, "///")
        ELSE IF find(line, "//!") # None THEN LineComment(line, "//!")
        ELSE IF find(line, "/*") # None THEN BlockStart(line)
        ELSE [emit |-> <<>>, in_block_comment |-> FALSE]

\* parse_rust_file, one line.
RustLine(in_block_comment, raw) ==
    LET line == trim(raw)
    IN  IF in_block_comment THEN InBlock(line)
        ELSE IF find(line, "///") # None THEN LineComment(line, "///")
        ELSE IF find(line, "//!") # None THEN LineComment(line, "//!")
        ELSE IF find(line, "//") # None THEN LineComment(line, "//")
        ELSE IF find(line, "/*") # None THEN BlockStart(line)
        ELSE [emit |-> <<>>, in_block_comment |-> FALSE]

\* The grave accent cannot be written in a TLA+ string: "^" stands for it
\* throughout, so Fence is the three grave accents of a markdown code fence.
Tick == "^"
Fence == Tick \o Tick \o Tick

\* Variant of MarkdownLine: only a line that is exactly the fence toggles.
MarkdownLineExactFence(in_code_block, raw) ==
    LET line == trim(raw)
    IN  IF line = Fence
        THEN [emit |-> <<>>, in_code_block |-> ~in_code_block]
        ELSE IF ~in_code_block /\ ~starts_with(line, "#") /\ ~is_empty(line)
        THEN [emit |-> <<line>>, in_code_block |-> in_code_block]
        ELSE [emit |-> <<>>, in_code_block |-> in_code_block]

\* Variant of MarkdownLine: headings are pushed like prose.
MarkdownLineKeepHeadings(in_code_block, raw) ==
    LET line == trim(raw)
    IN  IF starts_with(line, Fence)
        THEN [emit |-> <<>>, in_code_block |-> ~in_code_block]
        ELSE IF ~in_code_block /\ ~is_empty(line)
        THEN [emit |-> <<line>>, in_code_block |-> in_code_block]
        ELSE [emit |-> <<>>, in_code_block |-> in_code_block]

\* parse_markdown_file, one line.
MarkdownLine(in_code_block, raw) ==
    LET line == trim(raw)
    IN  IF starts_with(line, Fence)
        THEN [emit |-> <<>>, in_code_block |-> ~in_code_block]
        ELSE IF ~in_code_block /\ ~starts_with(line, "#") /\ ~is_empty(line)
        THEN [emit |-> <<line>>, in_code_block |-> in_code_block]
        ELSE [emit |-> <<>>, in_code_block |-> in_code_block]

\* Variant of TomlLine: the key and the value of a pair are pushed as two
\* sentences.
TomlLineSplitPair(raw) ==
    LET line == trim(raw)
    IN  IF is_empty(line) THEN <<>>
        ELSE IF starts_with(line, "#")
        THEN <<"Comment: " \o trim(SliceFrom(line, 1))>>
        ELSE IF starts_with(line, "[") /\ ends_with(line, "]")
        THEN <<"Table: " \o trim(SubSeq(line, 2, Len(line) - 1))>>
        ELSE IF find(line, "=") # None
        THEN LET idx == find(line, "=")[1]
             IN  <<trim(SliceTo(line, idx)), trim(SliceFrom(line, idx + 1))>>
        ELSE <<line>>

\* Variant of TomlLine: a line with "=" is a key-value pair before it is
\* looked at as a comment or a table header.
TomlLineKeyFirst(raw) ==
    LET line == trim(raw)
    IN  IF is_empty(line) THEN <<>>
        ELSE IF find(line, "=") # None
        THEN LET idx == find(line, "=")[1]
             IN  <<trim(SliceTo(line, idx)) \o " = "
                     \o trim(SliceFrom(line, idx + 1))>>
        ELSE IF starts_with(line, "#")
        THEN <<"Comment: " \o trim(SliceFrom(line, 1))>>
        ELSE IF starts_with(line, "[") /\ ends_with(line, "]")
        THEN <<"Table: " \o trim(SubSeq(line, 2, Len(line) - 1))>>
        ELSE <<line>>

\* parse_toml_file, one line.
TomlLine(raw) ==
    LET line == trim(raw)
    IN  IF is_empty(line) THEN <<>>
        ELSE IF starts_with(line, "#")
        THEN <<"Comment: " \o trim(SliceFrom(line, 1))>>
        ELSE IF starts_with(line, "[") /\ ends_with(line, "]")
        THEN <<"Table: " \o trim(SubSeq(line, 2, Len(line) - 1))>>
        ELSE IF find(line, "=") # None
        THEN LET idx == find(line, "=")[1]
             IN  <<trim(SliceTo(line, idx)) \o " = "
                     \o trim(SliceFrom(line, idx + 1))>>
        ELSE <<line>>

(***************************************************************************)
(* State.  files[f] is a File record; frame[f] is the activation of parse  *)
(* on it: the extractor that is running (pc), what is left of its          *)
(* contents.lines() iterator, its local sentences vector and its flag;     *)
(* parsed[f] counts the parse calls that have returned.                    *)
(***************************************************************************)
Idle == [pc |-> "idle", lines |-> <<>>, sentences |-> <<>>,
         in_block_comment |-> FALSE, in_code_block |-> FALSE]

\* File::new
New(path, contents) ==
    [path |-> path, contents |-> contents, sentences |-> <<>>]

\* The activation of an extractor on entry, before its loop.
Enter(fn, contents) ==
    [pc |-> fn, lines |-> lines(contents), sentences |-> <<>>,
     in_block_comment |-> FALSE, in_code_block |-> FALSE]

\* The arm of the match of File::parse an extension selects.
Arm(ext) ==
    IF ext = Some("rs") THEN "parse_rust_file"
    ELSE IF ext = Some("md") THEN "parse_markdown_file"
    ELSE IF ext = Some("toml") THEN "parse_toml_file"
    ELSE "push"

\* Variant of Passthrough: the contents are trimmed before they are pushed.
PassthroughTrimmed(sentences, contents) == Append(sentences, trim(contents))

\* The push of the contents of a record that is passed through.
Passthrough(sentences, contents) == Append(sentences, contents)

\* File::parse up to the call of the extractor, or the whole of it when the
\* record is passed through.
parse(f) ==
    /\ frame[f].pc = "idle"
    /\ parsed[f] < MaxParses
    /\ UNCHANGED <<loadVars, dbVars>>
    /\ LET arm == Arm(extension(files[f].path))
       IN  IF arm = "push"
           THEN /\ files' = [files EXCEPT ![f].sentences =
                                Passthrough(@, files[f].contents)]
                /\ parsed' = [parsed EXCEPT ![f] = @ + 1]
                /\ UNCHANGED frame
           ELSE /\ frame' = [frame EXCEPT ![f] = Enter(arm, files[f].contents)]
                /\ UNCHANGED <<files, parsed>>

\* The end of an extractor: self.sentences = sentences, and parse returns.
Return(f) ==
    /\ files' = [files EXCEPT ![f].sentences = frame[f].sentences]
    /\ frame' = [frame EXCEPT ![f] = Idle]
    /\ parsed' = [parsed EXCEPT ![f] = @ + 1]

\* Variant of parse_rust_file: in_block_comment is one variable shared by
\* all activations (kept in the first one) instead of a local of each.
parse_rust_file_shared_flag(f) ==
    /\ frame[f].pc = "parse_rust_file"
    /\ UNCHANGED <<loadVars, dbVars>>
    /\ IF frame[f].lines # <<>>
       THEN LET r == RustLine(frame[1].in_block_comment, Head(frame[f].lines))
            IN  /\ frame' = [frame EXCEPT
                        ![f].lines = Tail(@),
                        ![f].sentences = @ \o r.emit,
                        ![1].in_block_comment = r.in_block_comment]
                /\ UNCHANGED <<files, parsed>>
       ELSE Return(f)

parse_rust_file(f) ==
    /\ frame[f].pc = "parse_rust_file"
    /\ UNCHANGED <<loadVars, dbVars>>
    /\ IF frame[f].lines # <<>>
       THEN LET r == RustLine(frame[f].in_block_comment, Head(frame[f].lines))
            IN  /\ frame' = [frame EXCEPT
                        ![f].lines = Tail(@),
                        ![f].sentences = @ \o r.emit,
                        ![f].in_block_comment = r.in_block_comment]
                /\ UNCHANGED <<files, parsed>>
       ELSE Return(f)

parse_markdown_file(f) ==
    /\ frame[f].pc = "parse_markdown_file"
    /\ UNCHANGED <<loadVars, dbVars>>
    /\ IF frame[f].lines # <<>>
       THEN LET r == MarkdownLine(frame[f].in_code_block, Head(frame[f].lines))
            IN  /\ frame' = [frame EXCEPT
                        ![f].lines = Tail(@),
                        ![f].sentences = @ \o r.emit,
                        ![f].in_code_block = r.in_code_block]
                /\ UNCHANGED <<files, parsed>>
       ELSE Return(f)

parse_toml_file(f) ==
    /\ frame[f].pc = "parse_toml_file"
    /\ UNCHANGED <<loadVars, dbVars>>
    /\ IF frame[f].lines # <<>>
       THEN /\ frame' = [frame EXCEPT
                    ![f].lines = Tail(@),
                    ![f].sentences = @ \o TomlLine(Head(frame[f].lines))]
            /\ UNCHANGED <<files, parsed>>
       ELSE Return(f)

(***************************************************************************)
(* load_files_from_dir.  A path is the sequence of its components.  The    *)
(* file system shows itself one directory entry at a time: what read_dir   *)
(* and the iteration over it return is chosen when the walk asks for it,   *)
(* and walked records it.  stack holds the activations of the recursion,   *)
(* each with its directory, its local files vector and the names it has    *)
(* listed; result is None until the outermost call returns.                *)
(***************************************************************************)
\* The text of a path: its components separated by "/".
RECURSIVE JoinPath(_)
JoinPath(path) ==
    IF path = <<>> THEN ""
    ELSE IF Len(path) = 1 THEN path[1]
    ELSE path[1] \o "/" \o JoinPath(Tail(path))

\* Variant of has_file_extension: the extension is whatever follows the last
\* "." of the file name.
has_file_extension_of_dotfile(path, endings) ==
    LET ext == extension_of_dotfile(JoinPath(path))
    IN  IF ext # None THEN ext[1] \in endings ELSE FALSE

\* HasFileExt::has_file_extension
has_file_extension(path, endings) ==
    LET ext == extension(JoinPath(path))
    IN  IF ext # None THEN ext[1] \in endings ELSE FALSE

\* Path::strip_prefix: the components after those of prefix, or None when
\* the path does not start with them.
strip_prefix(path, prefix) ==
    IF Len(prefix) <= Len(path) /\ SubSeq(path, 1, Len(prefix)) = prefix
    THEN Some(SubSeq(path, Len(prefix) + 1, Len(path)))
    ELSE None

\* The loop of an extractor run to its end.
RECURSIVE Extract(_, _, _, _)
Extract(fn, ls, flag, sentences) ==
    IF ls = <<>> THEN sentences
    ELSE IF fn = "parse_rust_file"
    THEN LET r == RustLine(flag, Head(ls))
         IN  Extract(fn, Tail(ls), r.in_block_comment, sentences \o r.emit)
    ELSE IF fn = "parse_markdown_file"
    THEN LET r == MarkdownLine(flag, Head(ls))
         IN  Extract(fn, Tail(ls), r.in_code_block, sentences \o r.emit)
    ELSE Extract(fn, Tail(ls), flag, sentences \o TomlLine(Head(ls)))

\* file.parse() from call to return.
Parsed(file) ==
    LET arm == Arm(extension(file.path))
    IN  [file EXCEPT !.sentences =
            IF arm = "push" THEN Passthrough(@, file.contents)
            ELSE Extract(arm, lines(file.contents), FALSE, <<>>)]

Ok(v) == <<"Ok", v>>
Err(e) == <<"Err", e>>

\* Variant of LoadFile: the record is pushed as File::new returns it.
LoadFileUnparsed(path, e, endings, prefix) ==
    IF ~has_file_extension(path, endings) THEN <<"Skip">>
    ELSE IF e.contents = None THEN Err("read_to_string")
    ELSE IF strip_prefix(path, prefix) = None THEN Err("strip_prefix")
    ELSE IF ~e.text THEN Err("NotAvailableError")
    ELSE Ok(New(JoinPath(strip_prefix(path, prefix)[1]), e.contents[1]))

\* The branch of the loop for an entry that is a file: the record it builds,
\* the error it returns, or nothing when the extension is not asked for.
LoadFile(path, e, endings, prefix) ==
    IF ~has_file_extension(path, endings) THEN <<"Skip">>
    ELSE IF e.contents = None THEN Err("read_to_string")
    ELSE IF strip_prefix(path, prefix) = None THEN Err("strip_prefix")
    ELSE IF ~e.text THEN Err("NotAvailableError")
    ELSE Ok(Parsed(New(JoinPath(strip_prefix(path, prefix)[1]),
                       e.contents[1])))

\* What the file system can return for an entry: kind "error" when the
\* iteration fails; a directory with whether read_dir succeeds on it; a file
\* with its contents (None when read_to_string fails, on an unreadable file
\* or one that is not UTF-8) and whether its name is valid UTF-8; or
\* something that is neither.
Entry(kind, name, listing, contents, text) ==
    [kind |-> kind, name |-> name, listing |-> listing,
     contents |-> contents, text |-> text]

Entries ==
    {Entry("error", "", FALSE, None, TRUE),
     Entry("other", "sock", FALSE, None, TRUE),
     Entry("dir", "d", TRUE, None, TRUE),
     Entry("dir", "d", FALSE, None, TRUE),
     Entry("dir", "x.rs", TRUE, None, TRUE),
     Entry("file", "a.rs", FALSE, Some("/* x\ny */ z"), TRUE),
     Entry("file", "a.rs", FALSE, None, TRUE),
     Entry("file", "b.rs", FALSE, Some("// b"), FALSE),
     Entry("file", "n.txt", FALSE, Some(" t \n"), TRUE),
     Entry("file", "c", FALSE, Some("x"), TRUE),
     Entry("file", "c", FALSE, None, TRUE),
     Entry("file", ".rs", FALSE, Some("// d"), TRUE),
     Entry("file", "e.", FALSE, Some("x"), TRUE)}

Activation(dir) == [dir |-> dir, files |-> <<>>, names |-> {}]

NotCalled == [dir |-> <<>>, endings |-> {}, prefix |-> <<>>]

\* The call: fs::read_dir(dir)? and the entry into the loop.
load_files_from_dir ==
    /\ result = None
    /\ stack = <<>>
    /\ walked = <<>>
    /\ args # NotCalled
    /\ \E listing \in BOOLEAN :
        /\ walked' = <<[path |-> args.dir,
                        entry |-> Entry("dir", "", listing, None, TRUE)]>>
        /\ IF listing
           THEN stack' = <<Activation(args.dir)>> /\ UNCHANGED result
           ELSE result' = Err("read_dir") /\ UNCHANGED stack
    /\ UNCHANGED <<args, fileVars, dbVars>>

\* One iteration of the loop in activation top, for entry e at path, where
\* loaded is what the branch for a file gives: the stack and the result
\* after it.  An error returns through every activation, whose files
\* vectors are dropped.
Iteration(e, path, loaded) ==
    LET listed == [stack EXCEPT ![Len(stack)].names = @ \cup {e.name}]
    IN  IF e.kind = "error"
        THEN [stack |-> <<>>, result |-> Err("entry")]
        ELSE IF e.kind = "dir"
        THEN IF e.listing
             THEN [stack |-> Append(listed, Activation(path)),
                   result |-> result]
             ELSE [stack |-> <<>>, result |-> Err("read_dir")]
        ELSE IF e.kind = "file" /\ loaded[1] = "Err"
        THEN [stack |-> <<>>, result |-> loaded]
        ELSE IF e.kind = "file" /\ loaded[1] = "Ok"
        THEN [stack |-> [listed EXCEPT ![Len(stack)].files =
                            Append(@, loaded[2])],
              result |-> result]
        ELSE [stack |-> listed, result |-> result]

\* The loop body of the innermost activation, on the next entry the
\* iteration over the directory returns.
next_entry ==
    /\ stack # <<>>
    /\ Len(walked) < MaxEntries
    /\ \E e \in Entries, top \in {stack[Len(stack)]} :
      \E path \in {top.dir \o <<e.name>>} :
        \E after \in {Iteration(e, path,
                        LoadFile(path, e, args.endings, args.prefix))} :
            /\ e.kind # "error" => e.name \notin top.names
            /\ e.kind = "dir" => Len(stack) < MaxDepth
            /\ walked' = Append(walked, [path |-> path, entry |-> e])
            /\ stack' = after.stack
            /\ result' = after.result
    /\ UNCHANGED <<args, fileVars, dbVars>>

\* The end of the loop of the innermost activation: Ok(files), which the
\* caller appends to its own files or, outermost, receives as the result.
end_of_dir ==
    /\ stack # <<>>
    /\ LET top == stack[Len(stack)]
           rest == SubSeq(stack, 1, Len(stack) - 1)
       IN  IF rest = <<>>
           THEN result' = Ok(top.files) /\ stack' = <<>>
           ELSE /\ stack' = [rest EXCEPT ![Len(rest)].files = @ \o top.files]
                /\ UNCHANGED result
    /\ UNCHANGED <<args, walked, fileVars, dbVars>>

(***************************************************************************)
(* VectorDB.  db is the instance: its collection name and its id counter   *)
(* (the client is the connection to the store).  store is what the store   *)
(* holds under that name: None, or a collection with its vector            *)
(* parameters and its points, each an id with its payload (the vectors     *)
(* themselves are left out, and with them which point is nearest).  Each   *)
(* operation runs from call to return in one step: ret is what it returned *)
(* and issued the store calls it made, in order, each with whether it      *)
(* succeeded.  used lists the ids of the upserts that succeeded.           *)
(***************************************************************************)
VectorSize == 1536

\* VectorDB::new: the name from the environment, or ".", and id 0.
New_VectorDB(collection) ==
    [collection |-> IF collection # None THEN collection[1] ELSE ".", id |-> 0]

\* The store calls.  A call fails when the store does (ok = FALSE), or when
\* it cannot be served: points go into, and are searched in, a collection
\* that exists, and a collection is created under a name that is free.
\* Each gives the outcome and what the store holds afterwards.
Call(name, point, ok) == [call |-> name, point |-> point, ok |-> ok]

delete_collection(s, ok) ==
    [ok |-> ok, store |-> IF ok THEN None ELSE s]

create_collection(s, params, ok) ==
    LET done == ok /\ s = None
    IN  [ok |-> done,
         store |-> IF done
                   THEN Some([size |-> params.size,
                              distance |-> params.distance,
                              points |-> {}])
                   ELSE s]

upsert_points(s, id, payload, ok) ==
    LET done == ok /\ s # None
    IN  [ok |-> done,
         store |-> IF done
                   THEN Some([s[1] EXCEPT !.points =
                            {p \in @ : p.id # id}
                                \cup {[id |-> id, payload |-> payload]}])
                   ELSE s]

\* search_points with limit 1: the result lists that can come back.
search_points(s, ok) ==
    IF ~(ok /\ s # None) THEN {[ok |-> FALSE, result |-> <<>>]}
    ELSE IF s[1].points = {} THEN {[ok |-> TRUE, result |-> <<>>]}
    ELSE {[ok |-> TRUE, result |-> <<p>>] : p \in s[1].points}

Returns(op, status, value) == [op |-> op, status |-> status, value |-> value]

\* Variant of Recreate: the creation is issued whatever the deletion
\* returned.
RecreateAnyway(s, del_ok, create_ok) ==
    LET deleted == delete_collection(s, del_ok)
        created == create_collection(deleted.store,
                        [size |-> VectorSize, distance |-> "Cosine"],
                        create_ok)
    IN  [store |-> created.store,
         issued |-> <<Call("delete_collection", None, deleted.ok),
                      Call("create_collection", None, created.ok)>>,
         ret |-> Returns("reset_collection",
                         IF created.ok THEN "Ok" ELSE "Err", None)]

\* The body of reset_collection: delete, then, unless that failed, create.
Recreate(s, del_ok, create_ok) ==
    LET deleted == delete_collection(s, del_ok)
        created == create_collection(deleted.store,
                        [size |-> VectorSize, distance |-> "Cosine"],
                        create_ok)
    IN  IF ~deleted.ok
        THEN [store |-> deleted.store,
              issued |-> <<Call("delete_collection", None, FALSE)>>,
              ret |-> Returns("reset_collection", "Err", None)]
        ELSE [store |-> created.store,
              issued |-> <<Call("delete_collection", None, TRUE),
                           Call("create_collection", None, created.ok)>>,
              ret |-> Returns("reset_collection",
                              IF created.ok THEN "Ok" ELSE "Err", None)]

\* Variant of reset_collection: the instance starts counting again.
reset_collection_restarting ==
    /\ db # None
    /\ \E del_ok, create_ok \in BOOLEAN :
        LET r == Recreate(store, del_ok, create_ok)
        IN  /\ store' = r.store
            /\ issued' = r.issued
            /\ ret' = r.ret
            /\ db' = [db EXCEPT !.id = IF r.ret.status = "Ok" THEN 0 ELSE @]
    /\ UNCHANGED <<used, fileVars, loadVars>>

\* reset_collection(&self)
reset_collection ==
    /\ db # None
    /\ \E del_ok, create_ok \in BOOLEAN :
        LET r == Recreate(store, del_ok, create_ok)
        IN  /\ store' = r.store
            /\ issued' = r.issued
            /\ ret' = r.ret
    /\ UNCHANGED <<db, used, fileVars, loadVars>>

\* The files whose embeddings are stored: the payload holds their path.
Stored == {"a.rs", "b.md"}

\* Variant of Count: the counter moves whatever the store answered.
CountAlways(id, ok) == id + 1

\* self.id += 1, reached when upsert_points has returned Ok.
Count(id, ok) == IF ok THEN id + 1 ELSE id

\* Variant of upsert_embedding: the point takes the place after the points
\* the collection holds.
upsert_embedding_by_count ==
    /\ db # None
    /\ db.id < MaxUpserts
    /\ \E path \in Stored, ok \in BOOLEAN :
        LET id == IF store # None THEN Cardinality(store[1].points) ELSE 0
            r == upsert_points(store, id, path, ok)
        IN  /\ store' = r.store
            /\ issued' = <<Call("upsert_points", Some(id), r.ok)>>
            /\ ret' = Returns("upsert_embedding",
                              IF r.ok THEN "Ok" ELSE "Err", None)
            /\ db' = [db EXCEPT !.id = Count(@, r.ok)]
            /\ used' = IF r.ok THEN Append(used, id) ELSE used
    /\ UNCHANGED <<fileVars, loadVars>>

\* upsert_embedding(&mut self, embedding, file).  The payload is built from
\* a JSON object, which the conversion always accepts.
upsert_embedding ==
    /\ db # None
    /\ db.id < MaxUpserts
    /\ \E path \in Stored, ok \in BOOLEAN :
        LET r == upsert_points(store, db.id, path, ok)
        IN  /\ store' = r.store
            /\ issued' = <<Call("upsert_points", Some(db.id), r.ok)>>
            /\ ret' = Returns("upsert_embedding",
                              IF r.ok THEN "Ok" ELSE "Err", None)
            /\ db' = [db EXCEPT !.id = Count(@, r.ok)]
            /\ used' = IF r.ok THEN Append(used, db.id) ELSE used
    /\ UNCHANGED <<fileVars, loadVars>>

\* What search makes of the answer: the error, or result[0], an index out
\* of bounds, which panics, when the list is empty.
First(r) ==
    IF ~r.ok THEN Returns("search", "Err", None)
    ELSE IF r.result = <<>> THEN Returns("search", "panic", None)
    ELSE Returns("search", "Ok", Some(r.result[1]))

\* search(&self, embedding)
search ==
    /\ db # None
    /\ \E ok \in BOOLEAN : \E r \in search_points(store, ok) :
        /\ issued' = <<Call("search_points", None, r.ok)>>
        /\ ret' = First(r)
    /\ UNCHANGED <<db, store, used, fileVars, loadVars>>

(***************************************************************************)
(* Inputs: the paths and contents the records are constructed with.        *)
(***************************************************************************)
\* All strings over the characters of A of length k, and of length <= n.
RECURSIVE StringsOfLen(_, _)
StringsOfLen(A, k) ==
    IF k = 0 THEN {""}
    ELSE {c \o s : c \in A, s \in StringsOfLen(A, k - 1)}

Strings(A, n) == UNION {StringsOfLen(A, k) : k \in 0..n}

\* All sequences of at most n elements of S.
SeqsUpTo(S, n) == UNION {[1..k -> S] : k \in 0..n}

\* The lines ls, each but the last followed by the line end nl, the last one
\* too when final.
RECURSIVE Join(_, _, _)
Join(ls, nl, final) ==
    IF ls = <<>> THEN ""
    ELSE IF Len(ls) = 1 THEN ls[1] \o (IF final THEN nl ELSE "")
    ELSE ls[1] \o nl \o Join(Tail(ls), nl, final)

\* Files of at most MaxLines lines of a vocabulary: the lines separated by
\* "\n", or each of them ended by "\r\n".
FilesOf(vocab) ==
    {Join(ls, "\n", FALSE) : ls \in SeqsUpTo(vocab, MaxLines)}
        \cup {Join(ls, "\r\n", TRUE) : ls \in SeqsUpTo(vocab, MaxLines)}

\* One enumerated line, alone or after one line of before.
LinesAfter(before, alphabet) ==
    {b \o l : b \in {""} \cup {x \o "\n" : x \in before},
              l \in Strings(alphabet, MaxLineLen)}

RustVocab == {"/// doc /* not-a-block", "/* start", "middle", "end */",
              "", "a /* b */ c /* d", "*/ //! in"}
RustContents ==
    FilesOf(RustVocab) \cup LinesAfter({"/*"}, {"/", "*", "!", " ", "a"})

MarkdownVocab == {Fence, "  " \o Fence \o "rust", "# Title", "", "prose",
                  "  two words\t", "a " \o Fence}
MarkdownContents ==
    FilesOf(MarkdownVocab) \cup LinesAfter({Fence}, {Tick, "#", " ", "a"})

TomlVocab == {"key = value", "key=  value", "# k = v", "[a = b]",
              "k = a = b", "plain", ""}
TomlContents ==
    FilesOf(TomlVocab) \cup LinesAfter({}, {"#", "[", "]", "=", " ", "a"})
        \cup {"# hello", "[section]", "# hello\n\n[section]\nname = \"x\"\n"}

PlainContents == {"", " ", "x", "  x \n", "\n", "// a\n# b\r\n[c]\n\n d = e "}

\* Paths of one or two segments.
PathSegments == {"", ".", "..", "c", "rs", ".rs", ".md", ".toml", "a.rs",
                 "a.md", "a.toml", "a.", "a.txt", "a.Rs", "..rs", "a.rs.md",
                 "a.b.toml"}
Paths == PathSegments \cup {a \o "/" \o b : a, b \in PathSegments}

Inputs ==
    ({"src/main.rs"} \X RustContents)
        \cup ({"README.md"} \X MarkdownContents)
        \cup ({"Cargo.toml"} \X TomlContents)
        \cup (Paths \X PlainContents)

\* The files extracted side by side.
ConcInputs ==
    {<<"a.rs", "/* start\nmiddle\nend */">>, <<"b.rs", "x // y\n/* z">>,
     <<"a.md", Fence \o "\ncode\n" \o Fence \o "\nprose">>,
     <<"c.rs", "/* start\nmiddle\nend */">>,
     <<"a.toml", "# k = v\n[a = b]\nkey=  value">>,
     <<"notes.txt", "x // y\n/* z">>}

(***************************************************************************)
(* Specifications.                                                         *)
(***************************************************************************)
\* No walk, no record and no VectorDB.
NoLoad ==
    /\ args = NotCalled
    /\ stack = <<>>
    /\ result = None
    /\ walked = <<>>

NoFiles ==
    /\ files = <<>>
    /\ frame = <<>>
    /\ parsed = <<>>

NoDb ==
    /\ db = None
    /\ store = None
    /\ ret = None
    /\ issued = <<>>
    /\ used = <<>>

\* One record, constructed from any input.
Init ==
    /\ \E inp \in Inputs : files = [f \in {1} |-> New(inp[1], inp[2])]
    /\ frame = [f \in {1} |-> Idle]
    /\ parsed = [f \in {1} |-> 0]
    /\ NoLoad
    /\ NoDb

\* NumFiles records, each constructed from one of ConcInputs.
InitConc ==
    /\ \E ins \in [1..NumFiles -> ConcInputs] :
            files = [f \in 1..NumFiles |-> New(ins[f][1], ins[f][2])]
    /\ frame = [f \in 1..NumFiles |-> Idle]
    /\ parsed = [f \in 1..NumFiles |-> 0]
    /\ NoLoad
    /\ NoDb

Next ==
    \/ \E f \in DOMAIN files : parse(f)
    \/ \E f \in DOMAIN files : parse_rust_file(f)
    \/ \E f \in DOMAIN files : parse_markdown_file(f)
    \/ \E f \in DOMAIN files : parse_toml_file(f)

Spec == Init /\ [][Next]_vars

SpecConc == InitConc /\ [][Next]_vars

\* One call of load_files_from_dir on the directory "repo".
InitLoad ==
    /\ \E endings \in {{"rs"}, {"rs", "txt", ""}},
          prefix \in {<<"repo">>, <<"repo", "d">>, <<>>} :
            args = [dir |-> <<"repo">>, endings |-> endings, prefix |-> prefix]
    /\ stack = <<>>
    /\ result = None
    /\ walked = <<>>
    /\ NoFiles
    /\ NoDb

NextLoad ==
    \/ load_files_from_dir
    \/ next_entry
    \/ end_of_dir

SpecLoad == InitLoad /\ [][NextLoad]_vars

\* One new VectorDB, on a store where the collection of its name is absent,
\* or is there from before with other parameters and points.
InitDB ==
    /\ \E collection \in {None, Some("docs")} : db = New_VectorDB(collection)
    /\ store \in {None,
                  Some([size |-> 384, distance |-> "Dot",
                        points |-> {[id |-> 0, payload |-> "old"],
                                    [id |-> 7, payload |-> "old"]}])}
    /\ ret = None
    /\ issued = <<>>
    /\ used = <<>>
    /\ NoFiles
    /\ NoLoad

NextDB ==
    \/ reset_collection
    \/ upsert_embedding
    \/ search

SpecDB == InitDB /\ [][NextDB]_vars

(***************************************************************************)
(* Vocabulary of the properties, defined apart from the model's operators. *)
(***************************************************************************)
Blank == {" ", "\t", "\r", "\n"}

Contains(s, pat) ==
    \E i \in 1..(Len(s) - Len(pat) + 1) : SubSeq(s, i, i + Len(pat) - 1) = pat

\* s without its leading and trailing blanks.
RECURSIVE Stripped(_)
Stripped(s) ==
    IF s = "" THEN ""
    ELSE IF Head(s) \in Blank THEN Stripped(Tail(s))
    ELSE IF SubSeq(s, Len(s), Len(s)) \in Blank
    THEN Stripped(SubSeq(s, 1, Len(s) - 1))
    ELSE s

\* The text before and after the first occurrence of pat in s (s contains
\* pat).
RECURSIVE Before(_, _)
Before(s, pat) ==
    IF SubSeq(s, 1, Len(pat)) = pat THEN ""
    ELSE Head(s) \o Before(Tail(s), pat)

After(s, pat) == SubSeq(s, Len(Before(s, pat)) + Len(pat) + 1, Len(s))

\* The text after the last occurrence of pat in s (the whole of s when there
\* is none).
RECURSIVE AfterLast(_, _)
AfterLast(s, pat) ==
    IF Contains(s, pat) THEN AfterLast(After(s, pat), pat) ELSE s

\* The step of record f is the dispatch of a parse call, and what it selects.
Dispatches(f) ==
    /\ frame[f].pc = "idle"
    /\ frame'[f] # frame[f] \/ parsed'[f] # parsed[f]

Selected(f) == IF frame'[f].pc # "idle" THEN frame'[f].pc ELSE "push"

ByToken(token) ==
    CASE token = "rs" -> "parse_rust_file"
      [] token = "md" -> "parse_markdown_file"
      [] token = "toml" -> "parse_toml_file"
      [] OTHER -> "push"

\* The step of record f is one iteration of the loop of extractor fn, and
\* the sentences the iteration pushes.
LineStep(f, fn) ==
    /\ frame[f].pc = fn
    /\ frame[f].lines # <<>>
    /\ frame'[f] # frame[f]

Emitted(f) ==
    SubSeq(frame'[f].sentences, Len(frame[f].sentences) + 1,
           Len(frame'[f].sentences))

\* The lines the loop of record f has read so far.
Consumed(f) ==
    LET all == lines(files[f].contents)
    IN  SubSeq(all, 1, Len(all) - Len(frame[f].lines))

PlainPath(path) == extension(path) \notin {Some("rs"), Some("md"), Some("toml")}

(***************************************************************************)
(* C1.  A parse call on a record that has been parsed before, contents     *)
(* unchanged, leaves sentences as they were, whatever the extension.       *)
(* The code appends in the passthrough arm, so this is violated.           *)
(***************************************************************************)
C1_ReparseIsIdempotent ==
    [][\A f \in DOMAIN files :
            (parsed[f] >= 1 /\ parsed'[f] = parsed[f] + 1)
                => files'[f].sentences = files[f].sentences]_vars

(***************************************************************************)
(* C2.  After the one parse of a freshly created record whose path has no  *)
(* extension or one outside {rs, md, toml}, sentences is the one-element   *)
(* sequence holding contents unmodified.                                   *)
(***************************************************************************)
C2_Passthrough ==
    \A f \in DOMAIN files :
        (parsed[f] = 1 /\ PlainPath(files[f].path))
            => files[f].sentences = <<files[f].contents>>

C2_Witness ==
    \E f \in DOMAIN files :
        /\ parsed[f] = 1
        /\ files[f].path = "c/a.txt"
        /\ files[f].contents = "// a\n# b\r\n[c]\n\n d = e "
        /\ Len(files[f].sentences) = 1

(***************************************************************************)
(* C3.  As claimed: parse selects the extractor from the text after the    *)
(* last "." of the final "/"-separated segment of the path (passthrough    *)
(* when that segment has no "."), for every path.  Violated by ".rs".      *)
(***************************************************************************)
OriginalArm(path) ==
    LET seg == AfterLast(path, "/")
    IN  IF Contains(seg, ".") THEN ByToken(AfterLast(seg, ".")) ELSE "push"

C3_Original ==
    [][\A f \in DOMAIN files :
            Dispatches(f) => Selected(f) = OriginalArm(files[f].path)]_vars

(***************************************************************************)
(* C3, amended.  parse selects the extractor from the last segment of the  *)
(* path that is neither empty nor ".": the text after its last "." when it *)
(* has a "." past its first character, and passthrough when it has none    *)
(* (as in ".rs"), or when the path has no such segment.                    *)
(***************************************************************************)
RECURSIVE FinalName(_)
FinalName(path) ==
    LET seg == AfterLast(path, "/")
    IN  IF seg \notin {"", "."} THEN seg
        ELSE IF Len(seg) = Len(path) THEN ""
        ELSE FinalName(SubSeq(path, 1, Len(path) - Len(seg) - 1))

AmendedArm(path) ==
    LET name == FinalName(path)
    IN  IF Contains(SubSeq(name, 2, Len(name)), ".")
        THEN ByToken(AfterLast(name, "."))
        ELSE "push"

C3_Dispatch ==
    [][\A f \in DOMAIN files :
            Dispatches(f) => Selected(f) = AmendedArm(files[f].path)]_vars

C3_Witness ==
    \E f \in DOMAIN files :
        /\ files[f].path = "c/.rs"
        /\ files[f].contents = "// a\n# b\r\n[c]\n\n d = e "
        /\ parsed[f] = 1
        /\ files[f].sentences = <<files[f].contents>>

(***************************************************************************)
(* C4.  A line read by parse_rust_file outside a block comment that        *)
(* contains "//" pushes exactly one sentence, the text after the first     *)
(* occurrence of the marker chosen in the order "///", "//!", "//" without *)
(* its leading and trailing blanks, and leaves the extractor outside a     *)
(* block comment, whatever else the line contains; a line with neither     *)
(* "//" nor "/*" pushes nothing.                                           *)
(***************************************************************************)
Marker(l) ==
    IF Contains(l, "///") THEN "///"
    ELSE IF Contains(l, "//!") THEN "//!"
    ELSE "//"

C4_LineComment ==
    [][\A f \in DOMAIN files :
            (LineStep(f, "parse_rust_file") /\ ~frame[f].in_block_comment)
                => LET l == Head(frame[f].lines)
                   IN  /\ Contains(l, "//")
                            => /\ frame'[f].sentences = frame[f].sentences
                                    \o <<Stripped(After(l, Marker(l)))>>
                               /\ ~frame'[f].in_block_comment
                       /\ (~Contains(l, "//") /\ ~Contains(l, "/*"))
                            => frame'[f].sentences = frame[f].sentences]_vars

C4_Witness ==
    \E f \in DOMAIN files :
        /\ files[f].contents = "*/ //! in"
        /\ frame[f].pc = "parse_rust_file"
        /\ frame[f].lines = <<>>
        /\ frame[f].sentences = <<"in">>
        /\ ~frame[f].in_block_comment

(***************************************************************************)
(* C5.  As claimed: an .rs file whose only line is                         *)
(* "/// doc /* not-a-block" yields the one sentence " doc /* not-a-block", *)
(* with the space after the marker kept, and the extractor never enters a  *)
(* block comment.  Violated: the code trims the text after the marker.     *)
(***************************************************************************)
IsDocLineFile(f) ==
    /\ extension(files[f].path) = Some("rs")
    /\ files[f].contents = "/// doc /* not-a-block"

C5_Original ==
    \A f \in DOMAIN files :
        IsDocLineFile(f)
            => /\ parsed[f] >= 1
                    => files[f].sentences = <<" doc /* not-a-block">>
               /\ ~frame[f].in_block_comment

(***************************************************************************)
(* C5, amended.  The one sentence is "doc /* not-a-block", without a       *)
(* leading space; the extractor never enters a block comment.              *)
(***************************************************************************)
C5_DocLine ==
    \A f \in DOMAIN files :
        IsDocLineFile(f)
            => /\ parsed[f] >= 1
                    => files[f].sentences = <<"doc /* not-a-block">>
               /\ ~frame[f].in_block_comment

C5_Witness ==
    \E f \in DOMAIN files :
        /\ IsDocLineFile(f)
        /\ parsed[f] = 1
        /\ Len(files[f].sentences) = 1

(***************************************************************************)
(* C6.  As claimed: an .rs file of the three lines "/* start", "middle",   *)
(* "end */" yields the sentences "start", "middle", "end ".  Violated: the *)
(* text after "/*" is pushed as it is, so the first one is " start".       *)
(***************************************************************************)
IsBlockFile(f) ==
    /\ extension(files[f].path) = Some("rs")
    /\ files[f].contents = "/* start\nmiddle\nend */"

C6_Original ==
    \A f \in DOMAIN files :
        (IsBlockFile(f) /\ parsed[f] >= 1)
            => files[f].sentences = <<"start", "middle", "end ">>

(***************************************************************************)
(* C6, amended.  The three sentences are " start" (with the space that     *)
(* follows the opening marker), "middle" and "end ".                       *)
(***************************************************************************)
C6_BlockSpan ==
    \A f \in DOMAIN files :
        (IsBlockFile(f) /\ parsed[f] >= 1)
            => files[f].sentences = <<" start", "middle", "end ">>

C6_Witness ==
    \E f \in DOMAIN files :
        /\ IsBlockFile(f)
        /\ parsed[f] = 1
        /\ Len(files[f].sentences) = 3

(***************************************************************************)
(* C7.  In parse_markdown_file a line is inside a code block exactly when  *)
(* the number of fence lines read before it is odd; such a line pushes     *)
(* nothing whatever its content.  A fence line (three grave accents at the *)
(* start of the line once blanks are removed, whatever follows them)       *)
(* pushes nothing and toggles the state, in either state.                  *)
(***************************************************************************)
IsFenceLine(l) ==
    /\ Len(Stripped(l)) >= 3
    /\ SubSeq(Stripped(l), 1, 3) = Fence

FenceCount(ls) == Cardinality({i \in 1..Len(ls) : IsFenceLine(ls[i])})

C7_Fences ==
    [][\A f \in DOMAIN files :
            LineStep(f, "parse_markdown_file")
                => LET l == Head(frame[f].lines)
                       odd == FenceCount(Consumed(f)) % 2 = 1
                   IN  /\ frame[f].in_code_block = odd
                       /\ odd => frame'[f].sentences = frame[f].sentences
                       /\ IsFenceLine(l)
                            => /\ frame'[f].sentences = frame[f].sentences
                               /\ frame'[f].in_code_block
                                    = ~frame[f].in_code_block]_vars

C7_Witness ==
    \E f \in DOMAIN files :
        /\ files[f].contents = "  " \o Fence \o "rust\nprose\n" \o Fence
        /\ frame[f].pc = "parse_markdown_file"
        /\ Len(frame[f].lines) = 1
        /\ frame[f].sentences = <<>>
        /\ frame[f].in_code_block

(***************************************************************************)
(* C8.  In parse_markdown_file outside a code block, a line that is not a  *)
(* fence line pushes exactly one sentence, the line without its leading    *)
(* and trailing blanks, when that is not empty and does not start with     *)
(* "#", and pushes nothing otherwise; the state stays as it is.            *)
(***************************************************************************)
C8_Prose ==
    [][\A f \in DOMAIN files :
            (/\ LineStep(f, "parse_markdown_file")
             /\ ~frame[f].in_code_block
             /\ ~IsFenceLine(Head(frame[f].lines)))
                => LET t == Stripped(Head(frame[f].lines))
                   IN  /\ frame'[f].sentences = frame[f].sentences
                            \o (IF t # "" /\ Head(t) # "#"
                                THEN <<t>> ELSE <<>>)
                       /\ ~frame'[f].in_code_block]_vars

C8_Witness ==
    \E f \in DOMAIN files :
        /\ files[f].contents = "# Title\n\n  two words\t"
        /\ frame[f].pc = "parse_markdown_file"
        /\ frame[f].lines = <<>>
        /\ frame[f].sentences = <<"two words">>
        /\ ~frame[f].in_code_block

(***************************************************************************)
(* C9.  parse_toml_file classifies each line, blanks removed, by the first *)
(* rule that matches: empty, nothing; starts with "#", "Comment: " and the *)
(* text after it; starts with "[" and ends with "]", "Table: " and the     *)
(* text between them; contains "=", key, " = ", value, cut at the first    *)
(* "="; otherwise the line itself.  What a line pushes depends on that     *)
(* line alone.                                                             *)
(***************************************************************************)
Classified(l) ==
    LET t == Stripped(l)
    IN  IF t = "" THEN <<>>
        ELSE IF Head(t) = "#" THEN <<"Comment: " \o Stripped(Tail(t))>>
        ELSE IF Head(t) = "[" /\ SubSeq(t, Len(t), Len(t)) = "]"
        THEN <<"Table: " \o Stripped(SubSeq(t, 2, Len(t) - 1))>>
        ELSE IF Contains(t, "=")
        THEN <<Stripped(Before(t, "=")) \o " = " \o Stripped(After(t, "="))>>
        ELSE <<t>>

TomlExamples ==
    {<<"# hello", "Comment: hello">>, <<"[section]", "Table: section">>,
     <<"key = value", "key = value">>, <<"key=  value", "key = value">>,
     <<"# k = v", "Comment: k = v">>, <<"[a = b]", "Table: a = b">>,
     <<"k = a = b", "k = a = b">>, <<"plain", "plain">>}

C9_Classify ==
    [][\A f \in DOMAIN files :
            LineStep(f, "parse_toml_file")
                => LET l == Head(frame[f].lines)
                   IN  /\ frame'[f].sentences
                            = frame[f].sentences \o Classified(l)
                       /\ \A e \in TomlExamples :
                            l = e[1] => frame'[f].sentences
                                            = frame[f].sentences \o <<e[2]>>]_vars

C9_Witness ==
    \E f \in DOMAIN files :
        /\ files[f].contents = "# k = v\n[a = b]\nkey=  value"
        /\ frame[f].pc = "parse_toml_file"
        /\ frame[f].lines = <<>>
        /\ frame[f].sentences
            = <<"Comment: k = v", "Table: a = b", "key = value">>

(***************************************************************************)
(* C10.  Under any interleaving of the steps of the extractions of         *)
(* distinct freshly created records, each record ends with the sentences   *)
(* its extraction yields when it runs alone from start to end, and two     *)
(* records with the same extension and equal contents end with equal       *)
(* sentences.                                                              *)
(***************************************************************************)
RECURSIVE Alone(_, _, _, _)
Alone(fn, ls, flag, acc) ==
    IF ls = <<>> THEN acc
    ELSE IF fn = "parse_rust_file"
    THEN LET r == RustLine(flag, Head(ls))
         IN  Alone(fn, Tail(ls), r.in_block_comment, acc \o r.emit)
    ELSE IF fn = "parse_markdown_file"
    THEN LET r == MarkdownLine(flag, Head(ls))
         IN  Alone(fn, Tail(ls), r.in_code_block, acc \o r.emit)
    ELSE Alone(fn, Tail(ls), flag, acc \o TomlLine(Head(ls)))

Sequential(path, contents) ==
    LET arm == Arm(extension(path))
    IN  IF arm = "push" THEN <<contents>>
        ELSE Alone(arm, lines(contents), FALSE, <<>>)

C10_NoSharedState ==
    \A f, g \in DOMAIN files :
        /\ parsed[f] = 1
            => files[f].sentences
                = Sequential(files[f].path, files[f].contents)
        /\ (/\ parsed[f] = 1
            /\ parsed[g] = 1
            /\ extension(files[f].path) = extension(files[g].path)
            /\ files[f].contents = files[g].contents)
            => files[f].sentences = files[g].sentences

C10_Witness ==
    /\ files[1].path = "a.rs"
    /\ files[2].path = "c.rs"
    /\ files[1].contents = files[2].contents
    /\ parsed[1] = 1
    /\ frame[2].pc = "parse_rust_file"
    /\ frame[2].lines = <<>>
    /\ files[1].sentences = <<" start", "middle", "end ">>
    /\ frame[2].sentences = files[1].sentences

(***************************************************************************)
(* C17.  In parse_rust_file the extractor is in a block comment after a    *)
(* line exactly when (a) it was outside before, the line has no "//", has  *)
(* "/*", and the text after the first "/*" has no "*/", or (b) it was in   *)
(* one before and the line has no "*/".  A line that opens a block comment *)
(* pushes the text after the first "/*", cut at the first "*/" after it    *)
(* when there is one, and then the extractor is outside again.  The line   *)
(* is the line read without its leading and trailing blanks.               *)
(***************************************************************************)
C17_BlockState ==
    [][\A f \in DOMAIN files :
            LineStep(f, "parse_rust_file")
                => LET t == Stripped(Head(frame[f].lines))
                       in_block == frame[f].in_block_comment
                       starts == /\ ~in_block
                                 /\ ~Contains(t, "//")
                                 /\ Contains(t, "/*")
                       closed == Contains(After(t, "/*"), "*/")
                   IN  /\ frame'[f].in_block_comment
                            <=> \/ starts /\ ~closed
                                \/ in_block /\ ~Contains(t, "*/")
                       /\ starts
                            => frame'[f].sentences = frame[f].sentences
                                \o <<IF closed
                                     THEN Before(After(t, "/*"), "*/")
                                     ELSE After(t, "/*")>>]_vars

C17_Witness ==
    \E f \in DOMAIN files :
        /\ files[f].contents = "a /* b */ c /* d"
        /\ frame[f].pc = "parse_rust_file"
        /\ frame[f].lines = <<>>
        /\ frame[f].sentences = <<" b ">>
        /\ ~frame[f].in_block_comment

(***************************************************************************)
(* C18.  In a block comment every line read by parse_rust_file pushes      *)
(* exactly one sentence: the whole line without its leading and trailing   *)
(* blanks when it has no "*/" (an empty sentence for a blank line, comment *)
(* markers kept), and the text before the first "*/" otherwise, after      *)
(* which the extractor is outside the comment.  When the input ends in a   *)
(* block comment the sentences pushed so far are the result.               *)
(***************************************************************************)
C18_InBlock ==
    [][\A f \in DOMAIN files :
            /\ (LineStep(f, "parse_rust_file") /\ frame[f].in_block_comment)
                => LET t == Stripped(Head(frame[f].lines))
                   IN  /\ frame'[f].sentences = frame[f].sentences
                            \o <<IF Contains(t, "*/")
                                 THEN Before(t, "*/") ELSE t>>
                       /\ frame'[f].in_block_comment = ~Contains(t, "*/")
            /\ (/\ frame[f].pc = "parse_rust_file"
                /\ frame[f].in_block_comment
                /\ frame[f].lines = <<>>
                /\ parsed'[f] = parsed[f] + 1)
                => files'[f].sentences = frame[f].sentences]_vars

C18_Witness ==
    \E f \in DOMAIN files :
        /\ files[f].contents = "/*\n //"
        /\ parsed[f] = 1
        /\ files[f].sentences = <<"", "//">>

(***************************************************************************)
(* C19.  Each line read by an extractor adds at most one sentence, at the  *)
(* end of those pushed before, so the sentences never outnumber the lines  *)
(* read and empty contents yield none.  parse_toml_file pushes exactly one *)
(* sentence for a line that is not blank; parse_markdown_file never pushes *)
(* an empty sentence or one with a leading or trailing blank.              *)
(***************************************************************************)
Extractors == {"parse_rust_file", "parse_markdown_file", "parse_toml_file"}

C19_OnePerLine ==
    [][\A f \in DOMAIN files :
            /\ \A fn \in Extractors :
                LineStep(f, fn)
                    => /\ Len(Emitted(f)) <= 1
                       /\ frame'[f].sentences = frame[f].sentences \o Emitted(f)
                       /\ Len(frame'[f].sentences) <= Len(Consumed(f)) + 1
            /\ LineStep(f, "parse_toml_file")
                => (Len(Emitted(f)) = 1
                        <=> Stripped(Head(frame[f].lines)) # "")
            /\ LineStep(f, "parse_markdown_file")
                => \A i \in 1..Len(Emitted(f)) :
                        /\ Emitted(f)[i] # ""
                        /\ Stripped(Emitted(f)[i]) = Emitted(f)[i]
            /\ (frame[f].pc \in Extractors /\ parsed'[f] = parsed[f] + 1)
                => /\ files'[f].sentences = frame[f].sentences
                   /\ Len(files'[f].sentences) <= Len(lines(files[f].contents))
                   /\ files[f].contents = "" => files'[f].sentences = <<>>]_vars

C19_Witness ==
    \E f \in DOMAIN files :
        /\ files[f].contents = "key = value\n\nplain"
        /\ parsed[f] = 1
        /\ files[f].sentences = <<"key = value", "plain">>

(***************************************************************************)
(* Vocabulary of the properties of load_files_from_dir.  An entry of the   *)
(* walk is asked for when it is a file whose name has a "." past its first *)
(* character and the text after its last "." is in the allow-list; its key *)
(* is the text of its path after the components of the prefix.  It fails   *)
(* when the iteration, the listing of a directory, or, for a file asked    *)
(* for, the read, the prefix or the text of the name fails.                *)
(***************************************************************************)
AskedFor(w) ==
    /\ w.entry.kind = "file"
    /\ Contains(SubSeq(w.entry.name, 2, Len(w.entry.name)), ".")
    /\ AfterLast(w.entry.name, ".") \in args.endings

Key(w) == JoinPath(SubSeq(w.path, Len(args.prefix) + 1, Len(w.path)))

Fails(w) ==
    \/ w.entry.kind = "error"
    \/ w.entry.kind = "dir" /\ ~w.entry.listing
    \/ /\ AskedFor(w)
       /\ \/ w.entry.contents = <<>>
          \/ ~w.entry.text
          \/ Len(args.prefix) > Len(w.path)
          \/ SubSeq(w.path, 1, Len(args.prefix)) # args.prefix

Returned(status) == result # <<>> /\ result[1] = status

(***************************************************************************)
(* C11.  load_files_from_dir is all-or-nothing and holds no unparsed       *)
(* record: every record of an Ok result, and every record an activation    *)
(* has pushed, has the sentences of exactly one parse of its contents; and *)
(* once an entry at any depth has failed, the call has returned Err, every *)
(* activation and the records it had built are gone; Err is returned for   *)
(* no other reason.                                                        *)
(***************************************************************************)
C11_AllOrNothing ==
    /\ Returned("Ok") =>
        \A i \in DOMAIN result[2] :
            result[2][i].sentences
                = Sequential(result[2][i].path, result[2][i].contents)
    /\ \A a \in DOMAIN stack : \A i \in DOMAIN stack[a].files :
            stack[a].files[i].sentences
                = Sequential(stack[a].files[i].path,
                             stack[a].files[i].contents)
    /\ (\E i \in DOMAIN walked : Fails(walked[i]))
            <=> Returned("Err")
    /\ Returned("Err") => stack = <<>> /\ Len(result) = 2 /\ result[2] \in STRING

C11_Witness ==
    /\ Returned("Err")
    /\ Len(walked) = 4
    /\ AskedFor(walked[2]) /\ ~Fails(walked[2])
    /\ walked[2].entry.contents = <<"/* x\ny */ z">>
    /\ walked[3].entry.kind = "dir"
    /\ walked[4].path = <<"repo", "d", "a.rs">>
    /\ walked[4].entry.contents = <<>>
    /\ stack = <<>>

(***************************************************************************)
(* C12.  An Ok result holds exactly one record for every file of the walk, *)
(* at any depth, whose extension is in the allow-list, and none for        *)
(* anything else; a file without extension is in no result, whatever the   *)
(* allow-list; each record has the file's path with the prefix stripped,   *)
(* and the file's contents.                                                *)
(***************************************************************************)
C12_ExactlyTheAskedFor ==
    Returned("Ok") =>
        LET wanted == {i \in DOMAIN walked : AskedFor(walked[i])}
            got == DOMAIN result[2]
        IN  /\ \A i \in wanted :
                Cardinality({j \in got :
                    /\ result[2][j].path = Key(walked[i])
                    /\ result[2][j].contents = walked[i].entry.contents[1]})
                    = 1
            /\ \A j \in got : \E i \in wanted :
                    result[2][j].path = Key(walked[i])
            /\ Cardinality(got) = Cardinality(wanted)
            /\ \A i \in DOMAIN walked :
                    ~Contains(walked[i].entry.name, ".")
                        => \A j \in got : result[2][j].path # Key(walked[i])

C12_Witness ==
    /\ Returned("Ok")
    /\ args.endings = {"rs", "txt", ""}
    /\ args.prefix = <<"repo">>
    /\ Len(walked) = 4
    /\ walked[2].entry.name = "c" /\ walked[2].entry.kind = "file"
    /\ walked[3].entry.kind = "dir"
    /\ walked[4].path = <<"repo", "d", "a.rs">>
    /\ Len(result[2]) = 1
    /\ result[2][1].path = "d/a.rs"
    /\ result[2][1].sentences = <<" x", "y ">>

(***************************************************************************)
(* Vocabulary of the properties of VectorDB.                               *)
(***************************************************************************)
Points(s) == IF s = <<>> THEN {} ELSE s[1].points

Ids(seq) == {seq[i] : i \in DOMAIN seq}

Ran(op) == ret # <<>> /\ ret.op = op

Failing(calls) == {i \in DOMAIN calls : ~calls[i].ok}

(***************************************************************************)
(* C13.  The successful upserts of one VectorDB use the ids 0, 1, 2, ...   *)
(* in turn: each stores its point under the number of successful upserts   *)
(* before it, which none of them has used, and every point an earlier one  *)
(* has stored and the collection still holds is left as it is.             *)
(***************************************************************************)
C13_SuccessiveIds ==
    [][used' # used =>
        /\ used' = Append(used, Len(used))
        /\ Len(used) \notin Ids(used)
        /\ \E p \in Points(store') : p.id = Len(used)
        /\ \A p \in Points(store) : p.id \in Ids(used) => p \in Points(store')
      ]_vars

C13_Witness ==
    /\ used = <<0, 1, 2>>
    /\ {p.id : p \in Points(store)} = {0, 1, 2}
    /\ \A p \in Points(store) : p.payload \in {"a.rs", "b.md"}

(***************************************************************************)
(* C14.  When reset_collection has returned Ok, the collection exists,     *)
(* holds no point, and has vector size 1536 and cosine distance, whatever  *)
(* it held before.  The first call issued is the deletion; the creation is *)
(* issued after it, and only when the deletion has succeeded.              *)
(***************************************************************************)
C14_Reset ==
    Ran("reset_collection") =>
        /\ ret.status = "Ok" =>
            /\ store = <<[size |-> 1536, distance |-> "Cosine",
                          points |-> {}]>>
            /\ Len(issued) = 2
            /\ Failing(issued) = {}
        /\ Len(issued) \in {1, 2}
        /\ issued[1].call = "delete_collection"
        /\ Len(issued) = 2 <=> issued[1].ok
        /\ Len(issued) = 2 => issued[2].call = "create_collection"

C14_Witness ==
    /\ Ran("reset_collection")
    /\ ret.status = "Ok"
    /\ used = <<0>>
    /\ store # <<>>
    /\ Points(store) = {}

(***************************************************************************)
(* C15.  When a store call of an operation fails, it is the last call the  *)
(* operation issues, the operation returns Err, and the VectorDB is as it  *)
(* was before the operation.  After a failed upsert_embedding the counter  *)
(* is the id the failed call carried, so an upsert_embedding that follows  *)
(* carries the same id.                                                    *)
(***************************************************************************)
C15_FailurePropagates ==
    [][/\ Failing(issued') # {} =>
            /\ Failing(issued') = {Len(issued')}
            /\ ret'.status = "Err"
            /\ db' = db
            /\ used' = used
       /\ (Ran("upsert_embedding")' /\ ret'.status = "Err")
            => issued'[1].point = <<db'.id>>
       /\ (/\ Ran("upsert_embedding") /\ ret.status = "Err"
           /\ Ran("upsert_embedding")')
            => issued'[1].point = issued[1].point
      ]_vars

C15_Witness ==
    /\ Ran("upsert_embedding")
    /\ ret.status = "Err"
    /\ store # <<>>
    /\ used = <<0>>
    /\ db.id = 1
    /\ issued = <<[call |-> "upsert_points", point |-> <<1>>, ok |-> FALSE]>>

(***************************************************************************)
(* C16.  Every search returns a value: Ok with a point of the collection,  *)
(* and only when the collection holds one; Err otherwise, also when the    *)
(* store answers with an empty result list; search never panics.  The code *)
(* indexes the first element of the result list, so this is violated.      *)
(***************************************************************************)
C16_SearchReturns ==
    Ran("search") =>
        /\ ret.status \in {"Ok", "Err"}
        /\ ret.status = "Ok" => ret.value # <<>> /\ ret.value[1] \in Points(store)
        /\ (issued[1].ok /\ Points(store) = {}) => ret.status = "Err"
        /\ (issued[1].ok /\ Points(store) # {}) => ret.status = "Ok"

(***************************************************************************)
(* C20.  reset_collection leaves the id counter as it is: the counter is   *)
(* always the number of successful upserts of the instance, and the first  *)
(* point stored after a reset has the id after the last one used before    *)
(* it.                                                                     *)
(***************************************************************************)
C20_ResetKeepsCounter ==
    [][/\ db.id = Len(used)
       /\ db'.id = Len(used')
       /\ Ran("reset_collection")' => db'.id = db.id
       /\ (Ran("reset_collection") /\ used # <<>> /\ used' # used)
            => /\ used'[Len(used')] = used[Len(used)] + 1
               /\ \E p \in Points(store') : p.id = used[Len(used)] + 1
      ]_vars

C20_Witness ==
    /\ used = <<0, 1>>
    /\ db.id = 2
    /\ Ran("upsert_embedding")
    /\ store # <<>>
    /\ store[1].size = 1536
    /\ Points(store) = {[id |-> 1, payload |-> "b.md"]}

====
